---- MODULE Spec2Model ----
(***************************************************************************)
(* user-service: the "users" collection and the handlers that read and     *)
(* write it (app/user_service.py, app/user_routes.py, app/routes.py,       *)
(* app/main.py).                                                           *)
(*                                                                         *)
(* A stored document is a record whose DOMAIN is the set of keys that were *)
(* written: create_user writes _id, email, full_name, role and             *)
(* hashed_password; is_active is present only after an update $set it.     *)
(* The collection is the sequence of documents in natural (insertion)      *)
(* order.  An identifier string is <<form, n>>: <<"lower", n>> is          *)
(* str(ObjectId n), <<"upper", n>> the same 24 hex digits in upper case    *)
(* and <<"bad", 0>> a string that is no ObjectId.                          *)
(***************************************************************************)
EXTENDS Integers, Sequences, FiniteSets, TLC

VARIABLES coll, nextId, last, req, now, tok, resp, settings, hist,
          db_manager, clients

vars == <<coll, nextId, last, req, now, tok, resp, settings, hist,
          db_manager, clients>>

\* the clock, the token the client holds, the response to the last login,
\* token or read call, the loaded Settings and the observer's record of past
\* calls: the account handlers below leave them alone
aux == <<now, tok, resp, settings, hist, db_manager, clients>>

\* ---------------------------------------------------------------- bounds
\* number of ObjectIds the store hands out in one behaviour
MaxUsers == 2

\* number of concurrently served requests
NumProcs == 2

\* number of process starts counted while nothing but starts has happened
MaxRestarts == 3

\* number of driver clients the process creates in one behaviour
MaxClients == 6

\* ------------------------------------------------------------ input sets
DEFAULT_ADMIN_EMAIL == "admin@example.com"

DEFAULT_ADMIN_PASSWORD == "admin"

DEFAULT_ADMIN_NAME == "Administrator"

None == "None"

\* config.py Settings(): the default token lifetime, in minutes
ACCESS_TOKEN_EXPIRE_MINUTES == 30

Settings(minutes) == [ACCESS_TOKEN_EXPIRE_MINUTES |-> minutes]

\* config.py Settings(): where the store is reached
MONGODB_URL == "mongodb://localhost:27017"

DATABASE_NAME == "users"

\* before any login, token or read call
NoResponse == [op |-> "none"]

\* db_manager holds the two handles of the DatabaseManager, each absent
\* (<<>>) or present (<<handle>>); clients lists the driver clients the
\* process has created, each "open" or "closed".
\* DatabaseManager.__init__
DatabaseManager == [client |-> <<>>, database |-> <<>>]

\* AsyncIOMotorClient(url): the n-th client the process creates
AsyncIOMotorClient(url, n) == [id |-> n, url |-> url]

\* client[name]
Database(client, name) == [client |-> client.id, name |-> name]

\* database[collection_name]
Collection(database, collection_name) ==
    [client |-> database.client, database |-> database.name,
     name |-> collection_name]

\* variant: the second assignment of connect is left out
connect_ClientOnly(m, n) ==
    IF m.client = <<>>
    THEN [m EXCEPT !.client = <<AsyncIOMotorClient(MONGODB_URL, n)>>]
    ELSE m

\* DatabaseManager.connect; n numbers the client it may create
connect(m, n) ==
    IF m.client = <<>>
    THEN LET client == AsyncIOMotorClient(MONGODB_URL, n)
         IN  [client |-> <<client>>, database |-> <<Database(client, DATABASE_NAME)>>]
    ELSE m

\* DatabaseManager.disconnect
disconnect(m) ==
    IF m.client # <<>> THEN [client |-> <<>>, database |-> <<>>] ELSE m

\* the service handlers run between the connect of start-up and the
\* disconnect of shut-down
DbStarted ==
    /\ db_manager = connect(DatabaseManager, 1)
    /\ clients = <<"open">>

AuxInit ==
    /\ now = 0
    /\ tok = <<>>
    /\ resp = NoResponse
    /\ settings = Settings(ACCESS_TOKEN_EXPIRE_MINUTES)
    /\ hist = <<>>
    /\ DbStarted

Emails == {DEFAULT_ADMIN_EMAIL, "u@x.org"}

Passwords == {"pw"}

FullNames == {None}

RoleInputs == {"admin", "user"}

Salts == {"s1"}

Oids == 1..MaxUsers

\* path parameters: the identifier strings of the ObjectIds, and a malformed one
UserIdInputs == {<<"lower", n>> : n \in Oids} \cup {<<"bad", 0>>}

\* the same 24 hex digits in upper case name the same ObjectId
UpperIdInputs == {<<"upper", 1>>}

\* the dicts left by line 106 once the None values are dropped
UpdateDicts ==
    { [k \in {} |-> TRUE] }
    \cup { [email |-> e] : e \in Emails }
    \cup { [full_name |-> DEFAULT_ADMIN_NAME] }
    \cup { [is_active |-> b] : b \in BOOLEAN }
    \cup { [full_name |-> DEFAULT_ADMIN_NAME, is_active |-> FALSE] }


\* ------------------------------------------------------------ conversions
\* bson ObjectId(user_id): 24 hex digits of either case, else InvalidId
ValidObjectId(user_id) == user_id[1] \in {"lower", "upper"}

ObjectId(user_id) == user_id[2]

\* str(ObjectId): lower-case hex
StrOid(oid) == <<"lower", oid>>

\* passlib bcrypt: a salted digest; verification recomputes with the stored salt
get_password_hash(password, salt) == [salt |-> salt, digest |-> password]

verify_password(plain_password, hashed_password) ==
    hashed_password.digest = plain_password

\* User(**user_data): absent keys take the model's defaults
User(user_data) ==
    [id |-> StrOid(user_data._id),
     email |-> user_data.email,
     hashed_password |-> user_data.hashed_password,
     full_name |-> user_data.full_name,
     role |-> user_data.role,
     is_active |-> IF "is_active" \in DOMAIN user_data
                   THEN user_data.is_active ELSE TRUE]

UserResponse(user) ==
    [id |-> user.id, email |-> user.email, full_name |-> user.full_name,
     role |-> user.role, is_active |-> user.is_active]

\* --------------------------------------------------- persistence (Mongo)
Min(S) == CHOOSE x \in S : \A y \in S : x <= y

\* find_one({"email": email}): the first match in natural order, or nothing
find_one_email(c, email) ==
    LET m == {i \in DOMAIN c : c[i].email = email}
    IN  IF m = {} THEN <<>> ELSE <<c[Min(m)]>>

find_one_id(c, oid) ==
    LET m == {i \in DOMAIN c : c[i]._id = oid}
    IN  IF m = {} THEN <<>> ELSE <<c[Min(m)]>>

insert_one(c, doc) == Append(c, doc)

\* {"$set": update_data} on one document
SetFields(doc, update_data) ==
    [k \in DOMAIN doc \cup DOMAIN update_data |->
        IF k \in DOMAIN update_data THEN update_data[k] ELSE doc[k]]

update_one(c, oid, update_data) ==
    [i \in DOMAIN c |-> IF c[i]._id = oid THEN SetFields(c[i], update_data) ELSE c[i]]

delete_one(c, oid) == SelectSeq(c, LAMBDA d : d._id # oid)

count_documents_role(c, role) == Cardinality({i \in DOMAIN c : c[i].role = role})

\* ----------------------------------------------------------- UserService
\* variant: the lookup misses every account
get_user_by_email_Miss(c, email) == <<>>

get_user_by_email(c, email) ==
    LET user_data == find_one_email(c, email)
    IN  IF user_data # <<>> THEN <<User(user_data[1])>> ELSE <<>>

get_user_by_id(c, user_id) ==
    IF ~ValidObjectId(user_id) THEN <<>>
    ELSE LET user_data == find_one_id(c, ObjectId(user_id))
         IN  IF user_data # <<>> THEN <<User(user_data[1])>> ELSE <<>>

\* variant: the count taken without the role filter
count_admin_users_NoFilter(c) == Len(c)

count_admin_users(c) == count_documents_role(c, "admin")

\* variants of the last-admin test: one admin too few, one too many
IsLastAdmin_OffByOne(admin_count) == admin_count <= 0

IsLastAdmin_Strict(admin_count) == admin_count <= 2

\* the last-admin test of update_user_role and delete_user
IsLastAdmin(admin_count) == admin_count <= 1

\* variant: the existence test never fires
EmailTaken_Never(existing_user) == FALSE

\* the existence test of create_user
EmailTaken(existing_user) == existing_user # <<>>

\* outcome of a service call: the collection after it, how it ended
\* ("return", "None", or the exception raised) and the value returned
Outcome(c, svc, ret) == [coll |-> c, svc |-> svc, ret |-> ret]

create_user(c, oid, user_data, salt) ==
    IF EmailTaken(get_user_by_email(c, user_data.email))
    THEN Outcome(c, "ValueError: Email already registered", <<>>)
    ELSE LET user_dict == [_id |-> oid,
                           email |-> user_data.email,
                           full_name |-> user_data.full_name,
                           role |-> user_data.role,
                           hashed_password |->
                               get_password_hash(user_data.password, salt)]
         IN  Outcome(insert_one(c, user_dict), "return",
                     <<UserResponse(User(user_dict))>>)

update_user(c, user_id, update_data) ==
    IF ~ValidObjectId(user_id) THEN Outcome(c, "None", <<>>)
    ELSE LET c2 == update_one(c, ObjectId(user_id), update_data)
             updated_user == get_user_by_id(c2, user_id)
         IN  IF updated_user # <<>>
             THEN Outcome(c2, "return", <<UserResponse(updated_user[1])>>)
             ELSE Outcome(c2, "None", <<>>)

\* variant: the role is not validated
update_user_role_AnyRole(c, user_id, role) ==
    LET current_user == get_user_by_id(c, user_id)
    IN  IF /\ role = "user"
           /\ current_user # <<>>
           /\ current_user[1].role = "admin"
           /\ IsLastAdmin(count_admin_users(c))
        THEN Outcome(c, "ValueError: last administrator", <<>>)
        ELSE update_user(c, user_id, [role |-> role])

update_user_role(c, user_id, role) ==
    IF role \notin {"admin", "user"}
    THEN Outcome(c, "ValueError: Invalid role", <<>>)
    ELSE LET current_user == get_user_by_id(c, user_id)
         IN  IF /\ role = "user"
                /\ current_user # <<>>
                /\ current_user[1].role = "admin"
                /\ IsLastAdmin(count_admin_users(c))
             THEN Outcome(c, "ValueError: last administrator", <<>>)
             ELSE update_user(c, user_id, [role |-> role])

delete_user(c, user_id) ==
    LET user_to_delete == get_user_by_id(c, user_id)
    IN  IF /\ user_to_delete # <<>>
           /\ user_to_delete[1].role = "admin"
           /\ IsLastAdmin(count_admin_users(c))
        THEN Outcome(c, "ValueError: last administrator", <<>>)
        ELSE IF ~ValidObjectId(user_id)
        THEN Outcome(c, "InvalidId", <<>>)
        ELSE LET c2 == delete_one(c, ObjectId(user_id))
             IN  Outcome(c2, IF Len(c2) < Len(c) THEN "True" ELSE "False", <<>>)

\* variant: nothing is returned when the account exists
create_default_admin_ReturnsNone(c, oid, salt) ==
    LET existing_admin == get_user_by_email(c, DEFAULT_ADMIN_EMAIL)
    IN  IF existing_admin # <<>>
        THEN Outcome(c, "None", <<>>)
        ELSE create_user(c, oid,
                         [email |-> DEFAULT_ADMIN_EMAIL,
                          password |-> DEFAULT_ADMIN_PASSWORD,
                          full_name |-> DEFAULT_ADMIN_NAME,
                          role |-> "admin"], salt)

create_default_admin(c, oid, salt) ==
    LET existing_admin == get_user_by_email(c, DEFAULT_ADMIN_EMAIL)
    IN  IF existing_admin # <<>>
        THEN Outcome(c, "return", existing_admin)
        ELSE LET admin_user ==
                     create_user(c, oid,
                                 [email |-> DEFAULT_ADMIN_EMAIL,
                                  password |-> DEFAULT_ADMIN_PASSWORD,
                                  full_name |-> DEFAULT_ADMIN_NAME,
                                  role |-> "admin"], salt)
             IN  IF admin_user.svc = "return" THEN admin_user
                 ELSE Outcome(admin_user.coll, "None", <<>>)

\* ------------------------------------------------------ route dependency
\* get_current_admin_user for a bearer token that verify_token accepted with
\* subject sub: the admin, or the status of the HTTPException raised
\* variant: the role of the account is not looked at
get_current_admin_user_AnyRole(c, sub) ==
    LET user == get_user_by_email(c, sub)
    IN  IF user = <<>> THEN [http |-> 401, user |-> <<>>]
        ELSE [http |-> 200, user |-> user]

get_current_admin_user(c, sub) ==
    LET user == get_user_by_email(c, sub)
    IN  IF user = <<>> THEN [http |-> 401, user |-> <<>>]
        ELSE IF user[1].role # "admin" THEN [http |-> 403, user |-> <<>>]
        ELSE [http |-> 200, user |-> user]

\* ------------------------------------------------- the last call (observer)
NoId == <<"bad", 0>>

NoData == [k \in {} |-> TRUE]

\* the handler that ran last, its arguments (token subject, path id, role or
\* email in the body), the role the target account had when the call began,
\* the HTTP status, how the service call ended and what it returned; seeds
\* counts the process starts while nothing else has run
Call(op, sub, user_id, arg, was, http, svc, ret, seeds) ==
    [op |-> op, sub |-> sub, user_id |-> user_id, arg |-> arg, was |-> was,
     http |-> http, svc |-> svc, ret |-> ret, seeds |-> seeds]

\* the role of the account a path id names (None when no account has the id)
TargetRole(c, user_id) ==
    LET t == get_user_by_id(c, user_id)
    IN  IF t = <<>> THEN None ELSE t[1].role


\* a request in flight: its arguments, its position (pc) and its locals
Procs == 1..NumProcs

Request(pc, op, sub, user_id, arg, user, admin_count, http) ==
    [pc |-> pc, op |-> op, sub |-> sub, user_id |-> user_id, arg |-> arg,
     user |-> user, admin_count |-> admin_count, http |-> http]

Idle == Request("idle", None, None, NoId, None, <<>>, 0, 0)

Serving == last.op # "init"

\* ------------------------------------------------- sequential handlers
\* main.py lifespan startup: create_default_admin (a process start)
Lifespan(salt) ==
    LET out == create_default_admin(coll, nextId, salt)
        inserted == Len(out.coll) > Len(coll)
        first == last.op = "init"
        seeds == IF first THEN 1
                 ELSE IF last.seeds > 0 THEN last.seeds + 1 ELSE 0
    IN  /\ inserted => nextId <= MaxUsers
        /\ seeds <= MaxRestarts
        /\ coll' = out.coll
        /\ nextId' = IF inserted THEN nextId + 1 ELSE nextId
        /\ last' = Call("lifespan", None, NoId, None, None, 0,
                        out.svc, out.ret, seeds)
        /\ UNCHANGED <<req, aux>>

\* POST /auth/register
register_user(user_data, salt) ==
    LET out == create_user(coll, nextId, user_data, salt)
        inserted == Len(out.coll) > Len(coll)
    IN  /\ Serving
        /\ inserted => nextId <= MaxUsers
        /\ coll' = out.coll
        /\ nextId' = IF inserted THEN nextId + 1 ELSE nextId
        /\ last' = Call("register", None, NoId, user_data.email, None,
                        IF out.svc = "return" THEN 200 ELSE 400,
                        out.svc, out.ret, 0)
        /\ UNCHANGED <<req, aux>>

\* PUT /{user_id}/role
update_user_role_route(sub, user_id, role) ==
    LET auth == get_current_admin_user(coll, sub)
        out == IF auth.http # 200 THEN Outcome(coll, "not called", <<>>)
               ELSE update_user_role(coll, user_id, role)
        http == IF auth.http # 200 THEN auth.http
                ELSE IF out.svc = "return" THEN 200
                \* the 404 raised inside the try is caught by except Exception
                ELSE IF out.svc = "None" THEN 500
                ELSE 400
    IN  /\ Serving
        /\ coll' = out.coll
        /\ last' = Call("update_user_role", sub, user_id, role,
                        TargetRole(coll, user_id),
                        http, out.svc, out.ret, 0)
        /\ UNCHANGED <<nextId, req, aux>>

\* PUT /{user_id}
update_user_route(sub, user_id, update_dict) ==
    LET auth == get_current_admin_user(coll, sub)
        out == IF auth.http # 200 \/ update_dict = NoData
               THEN Outcome(coll, "not called", <<>>)
               ELSE update_user(coll, user_id, update_dict)
        http == IF auth.http # 200 THEN auth.http
                ELSE IF update_dict = NoData THEN 400
                ELSE IF out.svc = "return" THEN 200
                \* the 404 raised inside the try is caught by except Exception
                ELSE 500
    IN  /\ Serving
        /\ coll' = out.coll
        /\ last' = Call("update_user", sub, user_id, update_dict,
                        TargetRole(coll, user_id),
                        http, out.svc, out.ret, 0)
        /\ UNCHANGED <<nextId, req, aux>>

\* DELETE /{user_id}
delete_user_route(sub, user_id) ==
    LET auth == get_current_admin_user(coll, sub)
        self == auth.http = 200 /\ auth.user[1].id = user_id
        out == IF auth.http # 200 \/ self
               THEN Outcome(coll, "not called", <<>>)
               ELSE delete_user(coll, user_id)
        http == IF auth.http # 200 THEN auth.http
                ELSE IF self THEN 400
                ELSE IF out.svc = "True" THEN 200
                ELSE IF out.svc = "False" THEN 404
                ELSE IF out.svc = "InvalidId" THEN 500
                ELSE 400
    IN  /\ Serving
        /\ coll' = out.coll
        /\ last' = Call("delete_user", sub, user_id, None,
                        TargetRole(coll, user_id),
                        http, IF self THEN "self" ELSE out.svc, out.ret, 0)
        /\ UNCHANGED <<nextId, req, aux>>

UserCreates ==
    [email : Emails, password : Passwords, full_name : FullNames, role : RoleInputs]

Init ==
    /\ coll = <<>>
    /\ nextId = 1
    /\ last = Call("init", None, NoId, None, None, 0, "not called", <<>>, 0)
    /\ req = [p \in Procs |-> Idle]
    /\ AuxInit

Next ==
    \/ \E salt \in Salts : Lifespan(salt)
    \/ \E user_data \in UserCreates, salt \in Salts : register_user(user_data, salt)
    \/ \E sub \in Emails, user_id \in UserIdInputs, role \in RoleInputs \cup {"guest"} :
           update_user_role_route(sub, user_id, role)
    \/ \E sub \in Emails, user_id \in UserIdInputs, update_dict \in UpdateDicts :
           update_user_route(sub, user_id, update_dict)
    \/ \E sub \in Emails, user_id \in UserIdInputs \cup UpperIdInputs :
           delete_user_route(sub, user_id)

Spec == Init /\ [][Next]_vars

\* ------------------------------------------------- concurrent requests
\* Each request is a coroutine that is suspended at every await of a
\* persistence call, where the other requests run.  A process serves one
\* request; req[p] holds its arguments, its position and its local variables.
Done(r, http) == [r EXCEPT !.pc = "done", !.http = http]

\* a request arrives: register starts in create_user, the admin routes in
\* the get_current_admin_user dependency
ArriveRegister(p, user_data) ==
    /\ req[p] = Idle
    /\ req' = [req EXCEPT ![p] =
                  Request("find_email", "register", None, NoId, user_data,
                          <<>>, 0, 0)]
    /\ UNCHANGED <<coll, nextId, last, aux>>

ArriveAdmin(p, op, sub, user_id, role) ==
    /\ req[p] = Idle
    /\ req' = [req EXCEPT ![p] =
                  Request("auth", op, sub, user_id, role, <<>>, 0, 0)]
    /\ UNCHANGED <<coll, nextId, last, aux>>

\* create_user line 19: await get_user_by_email, then lines 20-26
FindEmail(p) ==
    LET r == req[p]
        existing_user == get_user_by_email(coll, r.arg.email)
    IN  /\ r.pc = "find_email"
        /\ req' = [req EXCEPT ![p] =
                      IF EmailTaken(existing_user)
                      THEN Done([r EXCEPT !.user = existing_user], 400)
                      ELSE [r EXCEPT !.pc = "insert", !.user = existing_user]]
        /\ UNCHANGED <<coll, nextId, last, aux>>

\* create_user line 28: await insert_one
Insert(p, salt) ==
    LET r == req[p]
        user_dict == [_id |-> nextId,
                      email |-> r.arg.email,
                      full_name |-> r.arg.full_name,
                      role |-> r.arg.role,
                      hashed_password |-> get_password_hash(r.arg.password, salt)]
    IN  /\ r.pc = "insert"
        /\ coll' = insert_one(coll, user_dict)
        /\ nextId' = nextId + 1
        /\ req' = [req EXCEPT ![p] = Done(r, 200)]
        /\ UNCHANGED <<last, aux>>

\* get_current_admin_user: await get_user_by_email; then the synchronous
\* part of the route up to its first await
Auth(p) ==
    LET r == req[p]
        auth == get_current_admin_user(coll, r.sub)
    IN  /\ r.pc = "auth"
        /\ req' = [req EXCEPT ![p] =
                      IF auth.http # 200 THEN Done(r, auth.http)
                      ELSE IF r.op = "delete_user" /\ auth.user[1].id = r.user_id
                      THEN Done(r, 400)
                      ELSE IF r.op = "update_user_role" /\ r.arg \notin {"admin", "user"}
                      THEN Done(r, 400)
                      ELSE IF r.op = "update_user_role" /\ r.arg # "user"
                      THEN [r EXCEPT !.pc = "update_one"]
                      ELSE [r EXCEPT !.pc = "get_by_id"]]
        /\ UNCHANGED <<coll, nextId, last, aux>>

\* update_user_role line 120 / delete_user line 134: await get_user_by_id
GetById(p) ==
    LET r == req[p]
        user == get_user_by_id(coll, r.user_id)
        write == IF r.op = "delete_user" THEN "delete_one" ELSE "update_one"
    IN  /\ r.pc = "get_by_id"
        /\ req' = [req EXCEPT ![p] =
                      IF user # <<>> /\ user[1].role = "admin"
                      THEN [r EXCEPT !.pc = "count", !.user = user]
                      ELSE [r EXCEPT !.pc = write, !.user = user]]
        /\ UNCHANGED <<coll, nextId, last, aux>>

\* update_user_role line 123 / delete_user line 136: await count_admin_users
Count(p) ==
    LET r == req[p]
        admin_count == count_admin_users(coll)
        write == IF r.op = "delete_user" THEN "delete_one" ELSE "update_one"
    IN  /\ r.pc = "count"
        /\ req' = [req EXCEPT ![p] =
                      IF IsLastAdmin(admin_count)
                      THEN Done([r EXCEPT !.admin_count = admin_count], 400)
                      ELSE [r EXCEPT !.pc = write, !.admin_count = admin_count]]
        /\ UNCHANGED <<coll, nextId, last, aux>>

\* update_user line 72: await update_one
UpdateOne(p) ==
    LET r == req[p]
    IN  /\ r.pc = "update_one"
        /\ IF ValidObjectId(r.user_id)
           THEN /\ coll' = update_one(coll, ObjectId(r.user_id), [role |-> r.arg])
                /\ req' = [req EXCEPT ![p] = [r EXCEPT !.pc = "reread"]]
           ELSE /\ coll' = coll
                /\ req' = [req EXCEPT ![p] = Done(r, 500)]
        /\ UNCHANGED <<nextId, last, aux>>

\* update_user line 76: await get_user_by_id
Reread(p) ==
    LET r == req[p]
        updated_user == get_user_by_id(coll, r.user_id)
    IN  /\ r.pc = "reread"
        /\ req' = [req EXCEPT ![p] =
                      Done(r, IF updated_user # <<>> THEN 200 ELSE 500)]
        /\ UNCHANGED <<coll, nextId, last, aux>>

\* delete_user line 140: await delete_one
DeleteOne(p) ==
    LET r == req[p]
        c2 == delete_one(coll, ObjectId(r.user_id))
    IN  /\ r.pc = "delete_one"
        /\ IF ValidObjectId(r.user_id)
           THEN /\ coll' = c2
                /\ req' = [req EXCEPT ![p] =
                              Done(r, IF Len(c2) < Len(coll) THEN 200 ELSE 404)]
           ELSE /\ coll' = coll
                /\ req' = [req EXCEPT ![p] = Done(r, 500)]
        /\ UNCHANGED <<nextId, last, aux>>

\* stores the sequential service reaches: the seeded administrator alone, or
\* with a second registered administrator
SeededAdmin ==
    [_id |-> 1, email |-> DEFAULT_ADMIN_EMAIL, full_name |-> DEFAULT_ADMIN_NAME,
     role |-> "admin",
     hashed_password |-> get_password_hash(DEFAULT_ADMIN_PASSWORD, "s1")]

SecondAdmin ==
    [_id |-> 2, email |-> "u@x.org", full_name |-> None, role |-> "admin",
     hashed_password |-> get_password_hash("pw", "s1")]

InitConc ==
    /\ coll \in {<<SeededAdmin>>, <<SeededAdmin, SecondAdmin>>}
    /\ nextId = Len(coll) + 1
    /\ last = Call("init", None, NoId, None, None, 0, "not called", <<>>, 0)
    /\ req = [p \in Procs |-> Idle]
    /\ AuxInit

NextConc ==
    \/ \E p \in Procs, user_data \in UserCreates : ArriveRegister(p, user_data)
    \/ \E p \in Procs, op \in {"update_user_role", "delete_user"}, sub \in Emails,
          user_id \in UserIdInputs, role \in RoleInputs :
           ArriveAdmin(p, op, sub, user_id, IF op = "delete_user" THEN None ELSE role)
    \/ \E p \in Procs : FindEmail(p)
    \/ \E p \in Procs, salt \in Salts : Insert(p, salt)
    \/ \E p \in Procs : Auth(p)
    \/ \E p \in Procs : GetById(p)
    \/ \E p \in Procs : Count(p)
    \/ \E p \in Procs : UpdateOne(p)
    \/ \E p \in Procs : Reread(p)
    \/ \E p \in Procs : DeleteOne(p)

SpecConc == InitConc /\ [][NextConc]_vars

\* ------------------------------------------------------ clock and tokens
\* The clock counts ticks; timestamps inside a token are whole seconds.
TicksPerSecond == 2

\* last instant of the clock
MaxClock == 4

\* timegm(dt.utctimetuple()): the whole seconds of an instant
Sec(t) == t \div TicksPerSecond

\* timedelta(seconds=n) added to an instant
Plus(t, seconds) == t + seconds * TicksPerSecond

Tick ==
    /\ now < MaxClock
    /\ now' = now + 1
    /\ UNCHANGED <<coll, nextId, last, req, tok, resp, settings, hist, db_manager, clients>>

\* User(**user_data) built at instant t: created_at is taken from the
\* document when it has one, else default_factory=datetime.utcnow
UserAt(user_data, t) ==
    User(user_data) @@
    [created_at |-> IF "created_at" \in DOMAIN user_data
                    THEN user_data.created_at ELSE t]

UserResponseAt(user) ==
    UserResponse(user) @@ [created_at |-> user.created_at]

\* the service's reads, at instant t
get_user_by_email_At(c, email, t) ==
    LET user_data == find_one_email(c, email)
    IN  IF user_data # <<>> THEN <<UserAt(user_data[1], t)>> ELSE <<>>

get_user_by_id_At(c, user_id, t) ==
    IF ~ValidObjectId(user_id) THEN <<>>
    ELSE LET user_data == find_one_id(c, ObjectId(user_id))
         IN  IF user_data # <<>> THEN <<UserAt(user_data[1], t)>> ELSE <<>>

\* find().skip(skip).limit(limit), limit > 0
get_all_users(c, skip, limit, t) ==
    LET n == IF Len(c) <= skip THEN 0
             ELSE IF Len(c) - skip < limit THEN Len(c) - skip ELSE limit
    IN  [i \in 1..n |-> UserResponseAt(UserAt(c[skip + i], t))]

\* variant: an inactive account is not authenticated
authenticate_user_ActiveOnly(c, email, password, t) ==
    LET user == get_user_by_email_At(c, email, t)
    IN  IF user = <<>> THEN <<>>
        ELSE IF ~verify_password(password, user[1].hashed_password) THEN <<>>
        ELSE IF ~user[1].is_active THEN <<>>
        ELSE user

authenticate_user(c, email, password, t) ==
    LET user == get_user_by_email_At(c, email, t)
    IN  IF user = <<>> THEN <<>>
        ELSE IF ~verify_password(password, user[1].hashed_password) THEN <<>>
        ELSE user

SECRET_KEY == "SECRET_KEY"

\* jose: the signature is a keyed digest of the header and the claims
Sign(claims, key) == [key |-> key, claims |-> claims]

jwt_encode(claims, key) == [claims |-> claims, signature |-> Sign(claims, key)]

\* variant: a zero lifetime counts as supplied
Truthy_ZeroCounts(expires_delta) == expires_delta # <<>>

\* `if expires_delta:` is false for None and for timedelta(0)
Truthy(expires_delta) == expires_delta # <<>> /\ expires_delta[1] # 0

\* expires_delta is <<>> (None) or <<seconds>>; jwt.encode writes the expiry
\* as whole seconds
create_access_token(data, expires_delta, t, s) ==
    LET expire == IF Truthy(expires_delta)
                  THEN Plus(t, expires_delta[1])
                  ELSE Plus(t, s.ACCESS_TOKEN_EXPIRE_MINUTES * 60)
    IN  jwt_encode(data @@ [exp |-> Sec(expire)], SECRET_KEY)

\* variant: a token is refused from the whole second of its expiry on
jwt_decode_ExpiredAtExp(token, key, t) ==
    IF "claims" \notin DOMAIN token THEN <<>>
    ELSE IF token.signature # Sign(token.claims, key) THEN <<>>
    ELSE IF "exp" \in DOMAIN token.claims /\ token.claims.exp <= Sec(t) THEN <<>>
    ELSE <<token.claims>>

\* jose jwt.decode: <<>> stands for a JWTError (malformed token, signature
\* mismatch, or an exp claim below the current whole second)
jwt_decode(token, key, t) ==
    IF "claims" \notin DOMAIN token THEN <<>>
    ELSE IF token.signature # Sign(token.claims, key) THEN <<>>
    ELSE IF "exp" \in DOMAIN token.claims /\ token.claims.exp < Sec(t) THEN <<>>
    ELSE <<token.claims>>

HTTPException(status_code, detail, headers) ==
    [status_code |-> status_code, detail |-> detail, headers |-> headers]

Bearer == <<"WWW-Authenticate", "Bearer">>

credentials_exception ==
    HTTPException(401, "Could not validate credentials", Bearer)

TokenData(email) == [email |-> email]

verify_token(token, t) ==
    LET payload == jwt_decode(token, SECRET_KEY, t)
    IN  IF payload = <<>> THEN credentials_exception
        ELSE IF "sub" \notin DOMAIN payload[1] THEN credentials_exception
        ELSE TokenData(payload[1].sub)

\* login_user lines 43-45: the lifetime handed to create_access_token
access_token_expires(remember_me, s) ==
    IF remember_me THEN <<30 * 86400>>
    ELSE <<s.ACCESS_TOKEN_EXPIRE_MINUTES * 60>>

\* variant: an unknown email is answered with its own error
login_user_Tells(c, login_data, t, s) ==
    LET user == authenticate_user(c, login_data.email, login_data.password, t)
    IN  IF find_one_email(c, login_data.email) = <<>>
        THEN HTTPException(404, "User not found", <<>>)
        ELSE IF user = <<>>
        THEN HTTPException(401, "Incorrect email or password", Bearer)
        ELSE [access_token |->
                  create_access_token([sub |-> user[1].email],
                      access_token_expires(login_data.remember_me, s), t, s),
              token_type |-> "bearer",
              user |-> UserResponseAt(user[1])]

\* POST /auth/login: the HTTPException raised or the Token returned
login_user(c, login_data, t, s) ==
    LET user == authenticate_user(c, login_data.email, login_data.password, t)
    IN  IF user = <<>>
        THEN HTTPException(401, "Incorrect email or password", Bearer)
        ELSE [access_token |->
                  create_access_token([sub |-> user[1].email],
                      access_token_expires(login_data.remember_me, s), t, s),
              token_type |-> "bearer",
              user |-> UserResponseAt(user[1])]

\* ------------------------------------- registration, login and reads
\* Accounts are registered, logged into and read back while the clock runs.
\* hist[n] is the instant at which the account with ObjectId n was registered.
LoginPasswords == Passwords \cup {"wrong"}

UserLogins == [email : Emails, password : LoginPasswords, remember_me : BOOLEAN]

\* UserCreate.role is any string
AnyRoleCreates ==
    [email : Emails, password : Passwords, full_name : FullNames,
     role : RoleInputs \cup {"guest"}]

Skips == {0, 1}

Limits == {1, 2}

\* the call made, its argument, what the service returned and what goes out
Response(op, arg, svc, out) == [op |-> op, arg |-> arg, svc |-> svc, out |-> out]

\* POST /auth/register at instant now: the User built for the response takes
\* its created_at from the clock
RegisterAt(user_data, salt) ==
    LET out == create_user(coll, nextId, user_data, salt)
        inserted == Len(out.coll) > Len(coll)
    IN  /\ inserted => nextId <= MaxUsers
        /\ coll' = out.coll
        /\ nextId' = IF inserted THEN nextId + 1 ELSE nextId
        /\ hist' = IF inserted THEN Append(hist, now) ELSE hist
        /\ resp' = Response("register", user_data, out.svc,
                            IF inserted
                            THEN <<out.ret[1] @@ [created_at |-> now]>>
                            ELSE <<>>)
        /\ UNCHANGED <<last, req, now, tok, settings, db_manager, clients>>

\* POST /auth/login
Login(login_data) ==
    /\ resp' = Response("login", login_data,
                        authenticate_user(coll, login_data.email,
                                          login_data.password, now),
                        login_user(coll, login_data, now, settings))
    /\ UNCHANGED <<coll, nextId, last, req, now, tok, settings, hist, db_manager, clients>>

ReadByEmail(email) ==
    /\ resp' = Response("get_user_by_email", email, "return",
                        get_user_by_email_At(coll, email, now))
    /\ UNCHANGED <<coll, nextId, last, req, now, tok, settings, hist, db_manager, clients>>

ReadById(user_id) ==
    /\ resp' = Response("get_user_by_id", user_id, "return",
                        get_user_by_id_At(coll, user_id, now))
    /\ UNCHANGED <<coll, nextId, last, req, now, tok, settings, hist, db_manager, clients>>

ListPage(skip, limit) ==
    /\ resp' = Response("get_all_users", <<skip, limit>>, "return",
                        get_all_users(coll, skip, limit, now))
    /\ UNCHANGED <<coll, nextId, last, req, now, tok, settings, hist, db_manager, clients>>

NextLogin ==
    \/ Tick
    \/ \E user_data \in AnyRoleCreates, salt \in Salts : RegisterAt(user_data, salt)
    \/ \E login_data \in UserLogins : Login(login_data)
    \/ \E email \in Emails : ReadByEmail(email)
    \/ \E user_id \in UserIdInputs : ReadById(user_id)
    \/ \E skip \in Skips, limit \in Limits : ListPage(skip, limit)

SpecLogin == Init /\ [][NextLogin]_vars

\* ------------------------------------------------- issuing and verifying
\* Tokens are issued and verified while the clock runs.  hist[1] records the
\* last issuance: its subject, the lifetime argument and the instant.
DefaultMinutes == {ACCESS_TOKEN_EXPIRE_MINUTES, 0, -1}

\* expires_delta: None, or a timedelta in seconds
Lifetimes == {<<>>, <<0>>, <<-1>>, <<1>>, <<2>>}

\* what a caller can present, made from the token last issued
Variants ==
    {"intact", "signature", "subject", "expiry", "malformed", "other_key",
     "no_sub", "no_exp"}

Without(claims, k) == [x \in DOMAIN claims \ {k} |-> claims[x]]

Variant(token, v) ==
    CASE v = "intact" -> token
      \* a byte of the signature altered
      [] v = "signature" ->
            [token EXCEPT !.signature = [key |-> "altered", claims |-> token.claims]]
      \* a byte of the claims altered, the signature kept
      [] v = "subject" -> [token EXCEPT !.claims.sub = "mallory@x.org"]
      [] v = "expiry" -> [token EXCEPT !.claims.exp = token.claims.exp + 1000]
      \* not three base64 segments
      [] v = "malformed" -> [garbage |-> TRUE]
      \* well formed, signed with another key
      [] v = "other_key" -> jwt_encode(token.claims, "OTHER_KEY")
      \* signed with the service's key, one claim absent
      [] v = "no_sub" -> jwt_encode(Without(token.claims, "sub"), SECRET_KEY)
      [] v = "no_exp" -> jwt_encode(Without(token.claims, "exp"), SECRET_KEY)

Issue(sub, expires_delta) ==
    LET token == create_access_token([sub |-> sub], expires_delta, now, settings)
    IN  /\ tok' = <<token>>
        /\ hist' = <<[sub |-> sub, expires_delta |-> expires_delta, iat |-> now]>>
        /\ resp' = Response("issue", [sub |-> sub, expires_delta |-> expires_delta],
                            "return", token)
        /\ UNCHANGED <<coll, nextId, last, req, now, settings, db_manager, clients>>

Verify(v) ==
    LET token == Variant(tok[1], v)
    IN  /\ tok # <<>>
        /\ resp' = Response("verify", [variant |-> v, token |-> token, at |-> now],
                            "called", verify_token(token, now))
        /\ UNCHANGED <<coll, nextId, last, req, now, tok, settings, hist, db_manager, clients>>

InitToken ==
    /\ coll = <<>>
    /\ nextId = 1
    /\ last = Call("init", None, NoId, None, None, 0, "not called", <<>>, 0)
    /\ req = [p \in Procs |-> Idle]
    /\ now = 0
    /\ tok = <<>>
    /\ resp = NoResponse
    /\ settings \in {Settings(m) : m \in DefaultMinutes}
    /\ hist = <<>>
    /\ DbStarted

NextToken ==
    \/ Tick
    \/ \E sub \in Emails, expires_delta \in Lifetimes : Issue(sub, expires_delta)
    \/ \E sub \in Emails, remember_me \in BOOLEAN :
           Issue(sub, access_token_expires(remember_me, settings))
    \/ \E v \in Variants : Verify(v)

SpecToken == InitToken /\ [][NextToken]_vars

\* ------------------------------------------------- two administrators
\* The service methods called one after the other: two administrators are
\* created, then each is demoted, then each is deleted.  hist records, call
\* by call, how the call ended.
ScenarioNames == {None, DEFAULT_ADMIN_NAME}

ScenarioPasswords == {"pw", DEFAULT_ADMIN_PASSWORD}

AdminCreates ==
    [email : Emails, password : ScenarioPasswords, full_name : ScenarioNames,
     role : {"admin"}]

\* one call of the service: its effect on the store and its entry in hist
Called(op, user_id, out) ==
    /\ coll' = out.coll
    /\ nextId' = IF Len(out.coll) > Len(coll) THEN nextId + 1 ELSE nextId
    /\ hist' = Append(hist, [op |-> op, user_id |-> user_id, svc |-> out.svc])
    /\ UNCHANGED <<last, req, now, tok, resp, settings, db_manager, clients>>

\* the first administrator, A
CreateA(user_data, salt) ==
    /\ Len(hist) = 0
    /\ Called("create_user", StrOid(nextId),
              create_user(coll, nextId, user_data, salt))

\* the second administrator, B, under another email
CreateB(user_data, salt) ==
    /\ Len(hist) = 1
    /\ user_data.email # coll[1].email
    /\ Called("create_user", StrOid(nextId),
              create_user(coll, nextId, user_data, salt))

DemoteA ==
    /\ Len(hist) = 2
    /\ Called("update_user_role", StrOid(1), update_user_role(coll, StrOid(1), "user"))

DemoteB ==
    /\ Len(hist) = 3
    /\ Called("update_user_role", StrOid(2), update_user_role(coll, StrOid(2), "user"))

DeleteA ==
    /\ Len(hist) = 4
    /\ Called("delete_user", StrOid(1), delete_user(coll, StrOid(1)))

DeleteB ==
    /\ Len(hist) = 5
    /\ Called("delete_user", StrOid(2), delete_user(coll, StrOid(2)))

NextScenario ==
    \/ \E user_data \in AdminCreates, salt \in Salts : CreateA(user_data, salt)
    \/ \E user_data \in AdminCreates, salt \in Salts : CreateB(user_data, salt)
    \/ DemoteA
    \/ DemoteB
    \/ DeleteA
    \/ DeleteB

SpecScenario == Init /\ [][NextScenario]_vars

\* ----------------------------------------------- admin routes by token
\* Clients log in and keep their tokens (tok, a set); hist is the set of
\* issuances, each a token with the identifier of the account that logged
\* in.  Admin routes are then called with a kept token, or with a kept
\* token whose signature was altered, while accounts are registered,
\* changed and deleted.
AdminLogins == [email : Emails, password : Passwords, remember_me : {FALSE}]

AdminOps ==
    {"get_all_users", "get_user_by_id", "update_user_role", "update_user",
     "delete_user"}

\* what is presented as bearer token: a kept token, or one with a byte of
\* its signature altered
Presented(held) == held \cup {Variant(token, "signature") : token \in held}

\* the dependency get_current_admin_user on the presented bearer token
current_admin(c, token, t) ==
    LET token_data == verify_token(token, t)
    IN  IF "email" \notin DOMAIN token_data
        THEN [http |-> 401, user |-> <<>>]
        ELSE get_current_admin_user(c, token_data.email)

\* the service call an admin route makes once the dependency has passed
admin_service_call(c, op, user_id, arg) ==
    CASE op = "get_all_users" -> Outcome(c, "return", <<>>)
      [] op = "get_user_by_id" ->
            Outcome(c, IF get_user_by_id(c, user_id) # <<>> THEN "return" ELSE "None",
                    <<>>)
      [] op = "update_user_role" -> update_user_role(c, user_id, arg)
      [] op = "update_user" -> update_user(c, user_id, arg)
      [] op = "delete_user" -> delete_user(c, user_id)

\* the status the route answers with after the service call
admin_status(op, svc) ==
    CASE op = "get_all_users" -> 200
      \* line 65 reads user.last_login_at, an attribute User does not have
      [] op = "get_user_by_id" -> IF svc = "return" THEN 500 ELSE 404
      [] op = "update_user_role" ->
            IF svc = "return" THEN 200 ELSE IF svc = "None" THEN 500 ELSE 400
      [] op = "update_user" -> IF svc = "return" THEN 200 ELSE 500
      [] op = "delete_user" ->
            IF svc = "True" THEN 200
            ELSE IF svc = "False" THEN 404
            ELSE IF svc = "InvalidId" THEN 500
            ELSE 400

\* POST /auth/register
RegisterOpen(user_data, salt) ==
    LET out == create_user(coll, nextId, user_data, salt)
        inserted == Len(out.coll) > Len(coll)
    IN  /\ inserted => nextId <= MaxUsers
        /\ coll' = out.coll
        /\ nextId' = IF inserted THEN nextId + 1 ELSE nextId
        /\ resp' = Response("register", [email |-> user_data.email], out.svc,
                            IF inserted THEN 200 ELSE 400)
        /\ UNCHANGED <<last, req, now, tok, settings, hist, db_manager, clients>>

\* POST /auth/login; the client keeps the token it is given
LoginKeep(login_data) ==
    LET out == login_user(coll, login_data, now, settings)
        ok == "access_token" \in DOMAIN out
    IN  /\ tok' = IF ok THEN tok \cup {out.access_token} ELSE tok
        /\ hist' = IF ok
                   THEN hist \cup {[token |-> out.access_token, id |-> out.user.id]}
                   ELSE hist
        /\ resp' = Response("login_keep", [email |-> login_data.email], "called",
                            IF ok THEN 200 ELSE out.status_code)
        /\ UNCHANGED <<coll, nextId, last, req, now, settings, db_manager, clients>>

\* a request to an admin route with a bearer token
AdminRequest(op, token, user_id, arg) ==
    LET auth == current_admin(coll, token, now)
        self == /\ op = "delete_user"
                /\ auth.http = 200
                /\ auth.user[1].id = user_id
        out == IF auth.http # 200 \/ self
               THEN Outcome(coll, "not called", <<>>)
               ELSE admin_service_call(coll, op, user_id, arg)
        http == IF auth.http # 200 THEN auth.http
                ELSE IF self THEN 400
                ELSE admin_status(op, out.svc)
    IN  /\ coll' = out.coll
        /\ resp' = Response(op, [token |-> token, user_id |-> user_id],
                            out.svc, http)
        /\ UNCHANGED <<nextId, last, req, now, tok, settings, hist, db_manager, clients>>

InitAdmin ==
    /\ coll = <<>>
    /\ nextId = 1
    /\ last = Call("init", None, NoId, None, None, 0, "not called", <<>>, 0)
    /\ req = [p \in Procs |-> Idle]
    /\ now = 0
    /\ tok = {}
    /\ resp = NoResponse
    /\ settings = Settings(ACCESS_TOKEN_EXPIRE_MINUTES)
    /\ hist = {}
    /\ DbStarted

NextAdmin ==
    \/ \E user_data \in UserCreates, salt \in Salts : RegisterOpen(user_data, salt)
    \/ \E login_data \in AdminLogins : LoginKeep(login_data)
    \/ \E op \in {"get_all_users", "get_user_by_id", "delete_user"},
          token \in Presented(tok), user_id \in UserIdInputs :
           AdminRequest(op, token, user_id, None)
    \/ \E token \in Presented(tok), user_id \in UserIdInputs, role \in RoleInputs :
           AdminRequest("update_user_role", token, user_id, role)
    \/ \E token \in Presented(tok), user_id \in UserIdInputs, email \in Emails :
           AdminRequest("update_user", token, user_id, [email |-> email])

SpecAdmin == InitAdmin /\ [][NextAdmin]_vars

\* --------------------------------------------------- inactive accounts
\* One or two administrators are stored; they log in, keep their tokens and
\* call the admin routes, among them the profile update that sets or clears
\* an account's active flag.
ActiveLogins ==
    [email : Emails, password : {"pw", DEFAULT_ADMIN_PASSWORD},
     remember_me : {FALSE}]

InitActive ==
    /\ coll \in {<<SeededAdmin>>, <<SeededAdmin, SecondAdmin>>}
    /\ nextId = Len(coll) + 1
    /\ last = Call("init", None, NoId, None, None, 0, "not called", <<>>, 0)
    /\ req = [p \in Procs |-> Idle]
    /\ now = 0
    /\ tok = {}
    /\ resp = NoResponse
    /\ settings = Settings(ACCESS_TOKEN_EXPIRE_MINUTES)
    /\ hist = {}
    /\ DbStarted

NextActive ==
    \/ \E login_data \in ActiveLogins : Login(login_data)
    \/ \E login_data \in ActiveLogins : LoginKeep(login_data)
    \/ \E op \in {"get_all_users", "get_user_by_id", "delete_user"},
          token \in tok, user_id \in UserIdInputs :
           AdminRequest(op, token, user_id, None)
    \/ \E token \in tok, user_id \in UserIdInputs, role \in RoleInputs :
           AdminRequest("update_user_role", token, user_id, role)
    \/ \E token \in tok, user_id \in UserIdInputs, is_active \in BOOLEAN :
           AdminRequest("update_user", token, user_id, [is_active |-> is_active])

SpecActive == InitActive /\ [][NextActive]_vars

\* ------------------------------------------------- database manager
\* The manager from its construction on: connect, disconnect and the reads
\* of its handles, in any order.
CollectionNames == {"users", "sessions"}

DatabaseConnectionError == "DatabaseConnectionError"

\* DatabaseManager.client
client(m) ==
    IF m.client = <<>> THEN [svc |-> "raise", ret |-> DatabaseConnectionError]
    ELSE [svc |-> "return", ret |-> m.client[1]]

\* DatabaseManager.database
database(m) ==
    IF m.database = <<>> THEN [svc |-> "raise", ret |-> DatabaseConnectionError]
    ELSE [svc |-> "return", ret |-> m.database[1]]

\* DatabaseManager.get_collection
get_collection(m, collection_name) ==
    LET db == database(m)
    IN  IF db.svc = "raise" THEN db
        ELSE [svc |-> "return", ret |-> Collection(db.ret, collection_name)]

\* await db_manager.connect()
Connect ==
    /\ db_manager.client = <<>> => Len(clients) < MaxClients
    /\ db_manager' = connect(db_manager, Len(clients) + 1)
    /\ clients' = IF db_manager.client = <<>> THEN Append(clients, "open")
                  ELSE clients
    /\ resp' = Response("connect", None, "return", None)
    /\ UNCHANGED <<coll, nextId, last, req, now, tok, settings, hist>>

\* await db_manager.disconnect(): the client is closed, then both handles
\* are dropped
Disconnect ==
    /\ db_manager' = disconnect(db_manager)
    /\ clients' = IF db_manager.client # <<>>
                  THEN [clients EXCEPT ![db_manager.client[1].id] = "closed"]
                  ELSE clients
    /\ resp' = Response("disconnect", None, "return", None)
    /\ UNCHANGED <<coll, nextId, last, req, now, tok, settings, hist>>

\* db_manager.client
ReadClient ==
    LET out == client(db_manager)
    IN  /\ resp' = Response("client", None, out.svc, out.ret)
        /\ UNCHANGED <<coll, nextId, last, req, now, tok, settings, hist,
                       db_manager, clients>>

\* db_manager.database, and get_database() which returns it
ReadDatabase(op) ==
    LET out == database(db_manager)
    IN  /\ resp' = Response(op, None, out.svc, out.ret)
        /\ UNCHANGED <<coll, nextId, last, req, now, tok, settings, hist,
                       db_manager, clients>>

\* db_manager.get_collection(name), and the module's get_collection(name)
\* which calls it
GetCollection(op, collection_name) ==
    LET out == get_collection(db_manager, collection_name)
    IN  /\ resp' = Response(op, collection_name, out.svc, out.ret)
        /\ UNCHANGED <<coll, nextId, last, req, now, tok, settings, hist,
                       db_manager, clients>>

InitDb ==
    /\ coll = <<>>
    /\ nextId = 1
    /\ last = Call("init", None, NoId, None, None, 0, "not called", <<>>, 0)
    /\ req = [p \in Procs |-> Idle]
    /\ now = 0
    /\ tok = <<>>
    /\ resp = NoResponse
    /\ settings = Settings(ACCESS_TOKEN_EXPIRE_MINUTES)
    /\ hist = <<>>
    /\ db_manager = DatabaseManager
    /\ clients = <<>>

NextDb ==
    \/ Connect
    \/ Disconnect
    \/ ReadClient
    \/ \E op \in {"database", "get_database"} : ReadDatabase(op)
    \/ \E op \in {"DatabaseManager.get_collection", "get_collection"},
          collection_name \in CollectionNames : GetCollection(op, collection_name)

SpecDb == InitDb /\ [][NextDb]_vars

\* =================================================================== claims
NumAdmins(c) == Cardinality({i \in DOMAIN c : c[i].role = "admin"})

\* the active flag as every read reports it
IsActive(doc) == IF "is_active" \in DOMAIN doc THEN doc.is_active ELSE TRUE

NumActiveAdmins(c) ==
    Cardinality({i \in DOMAIN c : c[i].role = "admin" /\ IsActive(c[i])})

\* the identifier string names the account with this ObjectId
IdNames(user_id, oid) == user_id[1] \in {"lower", "upper"} /\ user_id[2] = oid

Targets(c, user_id) == {i \in DOMAIN c : IdNames(user_id, c[i]._id)}

Projection(doc) ==
    [id |-> <<"lower", doc._id>>, email |-> doc.email, full_name |-> doc.full_name,
     role |-> doc.role, is_active |-> IsActive(doc)]

LastAdminError == "ValueError: last administrator"

\* the last call was a role change or a deletion that the service carried out
RemovedAnAdmin(l) ==
    /\ l.was = "admin"
    /\ \/ l.op = "update_user_role" /\ l.arg = "user" /\ l.svc = "return"
       \/ l.op = "delete_user" /\ l.svc = "True"

\* C1: in sequential execution, from any store holding at least one account
\* with role admin, no call of changeRole, deleteAccount, register or
\* updateProfile (or a process start) leads to a store without an admin.
C1_AdminCountStaysPositive ==
    [][NumAdmins(coll) >= 1 => NumAdmins(coll') >= 1]_vars

\* an admin was demoted or deleted and exactly one admin is left
C1_Witness == RemovedAnAdmin(last) /\ NumAdmins(coll) = 1

\* C3 as stated: from a store with at least one active admin, no successful
\* changeRole or deleteAccount leads to a store with no active admin.
C3_ActiveAdminRemains ==
    [][(RemovedAnAdmin(last') /\ NumActiveAdmins(coll) >= 1)
          => NumActiveAdmins(coll') >= 1]_vars

\* C3 amended: from a store with at least one active admin, no successful
\* changeRole or deleteAccount leads to a store with no account of role
\* admin; the admins that remain may all be inactive.
C3_AdminRemainsActiveOrNot ==
    [][(RemovedAnAdmin(last') /\ NumActiveAdmins(coll) >= 1)
          => NumAdmins(coll') >= 1]_vars

\* an active admin was demoted and the one admin left is inactive
C3_Witness ==
    /\ RemovedAnAdmin(last)
    /\ last.op = "update_user_role"
    /\ last.ret[1].is_active
    /\ NumAdmins(coll) = 1
    /\ NumActiveAdmins(coll) = 0

C4_Step ==
    (/\ last'.op = "update_user_role"
     /\ last'.svc # "not called"
     /\ last'.arg \in {"admin", "user"})
    => LET newRole == last'.arg
           T == Targets(coll, last'.user_id)
           sole == /\ T # {}
                   /\ \A i \in T : coll[i].role = "admin"
                   /\ newRole = "user"
                   /\ \A j \in DOMAIN coll \ T : coll[j].role # "admin"
       IN  /\ (last'.svc = LastAdminError) <=> sole
           /\ sole => coll' = coll
           /\ T = {} => last'.svc = "None" /\ coll' = coll
           /\ (T # {} /\ ~sole) =>
                 /\ last'.svc = "return"
                 /\ coll' = [i \in DOMAIN coll |->
                               IF i \in T THEN [coll[i] EXCEPT !.role = newRole]
                               ELSE coll[i]]
                 /\ \A i \in T : last'.ret = <<Projection(coll'[i])>>

\* C4: changeRole(id, newRole) with newRole admin or user fails with the
\* last-admin error exactly when the account is an admin, newRole is user and
\* no other account is an admin, and then writes nothing; for an id with no
\* account it returns nothing and writes nothing; in every other case it
\* sets the role of that account alone to newRole and returns the account.
C4_ChangeRoleContract == [][C4_Step]_vars

\* a non-sole admin was demoted, two accounts stored
C4_Witness ==
    /\ RemovedAnAdmin(last)
    /\ last.op = "update_user_role"
    /\ Len(coll) = 2
    /\ NumAdmins(coll) = 1
    /\ \E i \in Targets(coll, last.user_id) : coll[i].role = "user"

\* the account of the requester: the one the token's subject resolves to
Requester(c, sub) ==
    {i \in DOMAIN c : c[i].email = sub /\ \A j \in DOMAIN c : c[j].email = sub => i <= j}

\* a deletion request that passed the admin check
DeleteRequest(l) == l.op = "delete_user" /\ l.http \notin {401, 403}

C5_Step ==
    (/\ DeleteRequest(last')
     /\ Requester(coll, last'.sub) \cap Targets(coll, last'.user_id) = {})
    => LET T == Targets(coll, last'.user_id)
           sole == /\ T # {}
                   /\ \A i \in T : coll[i].role = "admin"
                   /\ \A j \in DOMAIN coll \ T : coll[j].role # "admin"
       IN  /\ (last'.svc = LastAdminError) <=> sole
           /\ sole => coll' = coll /\ last'.http = 400
           /\ T = {} => last'.svc = "False" /\ last'.http = 404 /\ coll' = coll
           /\ (T # {} /\ ~sole) =>
                 /\ last'.svc = "True"
                 /\ last'.http = 200
                 /\ coll' = SelectSeq(coll, LAMBDA d : ~IdNames(last'.user_id, d._id))

\* C5: deleteAccount(requesterId, targetId) for a target other than the
\* requester fails with the last-admin error exactly when the target is an
\* admin and no other account is, leaving the store unchanged; it removes
\* exactly the target and reports success when the target exists and the
\* check allows; it reports NotFound and leaves the store unchanged when no
\* account has targetId.
C5_DeleteContract == [][C5_Step]_vars

\* C6: deleteAccount by a requester on the requester's own account fails
\* with SelfDeleteForbidden, whatever the number of admins, before any
\* last-admin or existence check, and leaves the store unchanged.
C6_SelfDeleteForbidden ==
    [][(/\ DeleteRequest(last')
        /\ Requester(coll, last'.sub) \cap Targets(coll, last'.user_id) # {})
          => (last'.svc = "self" /\ last'.http = 400 /\ coll' = coll)]_vars

\* C7: register with an email that a stored account has fails with the
\* duplicate-account error, inserts nothing and leaves every field of every
\* stored account unchanged.
C7_DuplicateRegisterRejected ==
    [][(/\ last'.op = "register"
        /\ \E i \in DOMAIN coll : coll[i].email = last'.arg)
          => (/\ last'.svc = "ValueError: Email already registered"
              /\ last'.http = 400
              /\ last'.ret = <<>>
              /\ coll' = coll
              /\ nextId' = nextId)]_vars

\* a registration was refused for the email of the seeded administrator,
\* whose password, display name and role differ from those registered
C7_Witness ==
    /\ last.op = "register"
    /\ last.svc = "ValueError: Email already registered"
    /\ last.arg = DEFAULT_ADMIN_EMAIL
    /\ \E i \in DOMAIN coll :
          /\ coll[i].email = DEFAULT_ADMIN_EMAIL
          /\ coll[i].hashed_password.digest = DEFAULT_ADMIN_PASSWORD
          /\ coll[i].full_name = DEFAULT_ADMIN_NAME

\* C8: in sequential execution no two stored accounts have the same email,
\* after any sequence of register, ensureDefaultAdmin and updateProfile.
C8_UniqueEmails ==
    \A i, j \in DOMAIN coll : coll[i].email = coll[j].email => i = j

\* C10: process starts on an initially empty store, with nothing else run
\* in between, leave exactly one account, which has the default admin's
\* email and role admin; every start after the first writes nothing.
C10_SeedIdempotent ==
    [][(last'.op = "lifespan" /\ last'.seeds >= 1)
          => (/\ Len(coll') = 1
              /\ coll'[1].email = DEFAULT_ADMIN_EMAIL
              /\ coll'[1].role = "admin"
              /\ last'.seeds >= 2 => (coll' = coll /\ nextId' = nextId))]_vars

\* the process started three times in a row on a store that began empty
C10_Witness == last.op = "lifespan" /\ last.seeds = 3 /\ Len(coll) = 1

\* ------------------------------------------------ concurrent execution
\* the request read an admin count and was let past the last-admin check
PassedCheck(r) ==
    /\ r.admin_count > 0
    /\ r.pc \in {"update_one", "delete_one", "reread"} \/ (r.pc = "done" /\ r.http # 400)

\* the request has persisted a demotion or a deletion
WroteRemoval(r) ==
    /\ ValidObjectId(r.user_id)
    /\ \/ r.op = "delete_user" /\ r.pc = "done" /\ r.http = 200
       \/ /\ r.op = "update_user_role" /\ r.arg = "user"
          /\ r.pc = "reread" \/ (r.pc = "done" /\ r.http \in {200, 500})

\* C2: with requests interleaving at every persistence call, a request is
\* let past the last-admin check only on a count of at least 2 that it read
\* earlier, and the store holds no admin only after at least two demotion or
\* deletion requests have written, one of them on such a count.
C2_ZeroAdminsByTwoStaleCounts ==
    /\ \A p \in Procs : PassedCheck(req[p]) => req[p].admin_count >= 2
    /\ NumAdmins(coll) = 0 =>
          /\ Cardinality({p \in Procs : WroteRemoval(req[p])}) >= 2
          /\ \E p \in Procs : WroteRemoval(req[p]) /\ req[p].admin_count >= 2

\* two requests aimed at the two different admins both read a count of 2,
\* both succeeded, and no admin is left
C2_Witness ==
    /\ NumAdmins(coll) = 0
    /\ \E p, q \in Procs :
          /\ req[p].pc = "done" /\ req[q].pc = "done"
          /\ req[p].op = "update_user_role" /\ req[q].op = "delete_user"
          /\ req[p].http = 200 /\ req[q].http = 200
          /\ req[p].admin_count = 2 /\ req[q].admin_count = 2
          /\ req[p].user_id # req[q].user_id

\* the request passed the existence check of create_user
PassedExistenceCheck(r) ==
    r.op = "register" /\ (r.pc = "insert" \/ (r.pc = "done" /\ r.http = 200))

\* C9: with requests interleaving at every persistence call, two accounts
\* share an email only when two register requests for that email both found
\* no account and both inserted.
C9_DuplicateByTwoStaleChecks ==
    \A i, j \in DOMAIN coll :
        (i # j /\ coll[i].email = coll[j].email) =>
            \E p, q \in Procs :
                /\ p # q
                /\ \A x \in {p, q} :
                      /\ PassedExistenceCheck(req[x])
                      /\ req[x].pc = "done"
                      /\ req[x].arg.email = coll[i].email
                      /\ req[x].user = <<>>

\* two registrations of one free email both succeeded and both accounts
\* are stored
C9_Witness ==
    /\ \E i, j \in DOMAIN coll : i # j /\ coll[i].email = coll[j].email
    /\ \E p, q \in Procs :
          /\ p # q
          /\ req[p].op = "register" /\ req[q].op = "register"
          /\ req[p].http = 200 /\ req[q].http = 200
          /\ req[p].arg.email = req[q].arg.email

\* ------------------------------------------------------ default admin
\* the stored accounts that carry the default admin's email
WithDefaultEmail(c) == {i \in DOMAIN c : c[i].email = DEFAULT_ADMIN_EMAIL}

\* C11 as stated: ensureDefaultAdmin returns nothing (None) whenever an
\* account with the default admin's email already exists.
C11_ReturnsNoneWhenExists ==
    [][(last'.op = "lifespan" /\ WithDefaultEmail(coll) # {})
          => last'.ret = <<>>]_vars

\* C11 amended: when an account with the default admin's email already
\* exists, ensureDefaultAdmin writes nothing and returns that stored account
\* (password hash included); otherwise it appends one account with role
\* admin and returns the new account without its hash.
C11_ReturnsExistingOrCreated ==
    [][last'.op = "lifespan"
          => IF WithDefaultEmail(coll) # {}
             THEN LET doc == coll[Min(WithDefaultEmail(coll))]
                  IN  /\ coll' = coll
                      /\ last'.svc = "return"
                      /\ last'.ret =
                             <<[id |-> <<"lower", doc._id>>,
                                email |-> doc.email,
                                hashed_password |-> doc.hashed_password,
                                full_name |-> doc.full_name,
                                role |-> doc.role,
                                is_active |-> IsActive(doc)]>>
             ELSE /\ Len(coll') = Len(coll) + 1
                  /\ SubSeq(coll', 1, Len(coll)) = coll
                  /\ coll'[Len(coll')].email = DEFAULT_ADMIN_EMAIL
                  /\ coll'[Len(coll')].role = "admin"
                  /\ last'.svc = "return"
                  /\ last'.ret = <<Projection(coll'[Len(coll')])>>]_vars

\* the process started on a store that held the default admin's email, and
\* the call returned that account
C11_Witness ==
    /\ last.op = "lifespan"
    /\ last.seeds = 0
    /\ last.ret # <<>>
    /\ "hashed_password" \in DOMAIN last.ret[1]

\* -------------------------------------------------------------- login
WithEmail(c, email) == {i \in DOMAIN c : c[i].email = email}

\* no account has the email
UnknownEmail(c, email) == WithEmail(c, email) = {}

\* an account has the email and the password is not the one it was hashed from
WrongPassword(c, email, password) ==
    /\ WithEmail(c, email) # {}
    /\ c[Min(WithEmail(c, email))].hashed_password.digest # password

LoginFailure ==
    [status_code |-> 401, detail |-> "Incorrect email or password",
     headers |-> <<"WWW-Authenticate", "Bearer">>]

\* C12: whatever the store, a login whose email no account has and a login
\* whose email an account has but whose password does not verify end the
\* same way: the service returns nothing and the response is the one 401
\* "Incorrect email or password" with the Bearer challenge header.
C12_SameLoginFailure ==
    [][(/\ resp'.op = "login"
        /\ \/ UnknownEmail(coll, resp'.arg.email)
           \/ WrongPassword(coll, resp'.arg.email, resp'.arg.password))
          => (resp'.svc = <<>> /\ resp'.out = LoginFailure)]_vars

\* a login with the email of a stored account and a wrong password failed
C12_Witness ==
    /\ resp.op = "login"
    /\ WrongPassword(coll, resp.arg.email, resp.arg.password)
    /\ resp.out = LoginFailure

\* -------------------------------------------------------------- tokens
\* the token last issued was verified as issued, and it was issued with a
\* positive lifetime argument
VerifiedIntact ==
    /\ resp.op = "verify"
    /\ resp.arg.variant = "intact"
    /\ hist[1].expires_delta # <<>>
    /\ hist[1].expires_delta[1] > 0

Accepted(sub) == resp.out = [email |-> sub]

Refused ==
    resp.out = [status_code |-> 401, detail |-> "Could not validate credentials",
                headers |-> <<"WWW-Authenticate", "Bearer">>]

\* C13 as stated: a token issued for subject S at instant i with positive
\* lifetime L verifies with subject S at every instant t with i <= t < i + L
\* and fails at every instant t >= i + L.
C13_ValidStrictlyBeforeExpiry ==
    VerifiedIntact =>
        LET i == hist[1].iat
            L == hist[1].expires_delta[1] * TicksPerSecond
            t == resp.arg.at
        IN  /\ (i <= t /\ t < i + L) => Accepted(hist[1].sub)
            /\ t >= i + L => Refused

\* C13 amended: the token verifies with subject S at every instant from
\* issuance up to the end of the whole second in which i + L falls (the
\* instant i + L included), and fails at every instant of a later second.
C13_ValidThroughExpirySecond ==
    VerifiedIntact =>
        LET i == hist[1].iat
            L == hist[1].expires_delta[1]
            t == resp.arg.at
        IN  /\ t \div TicksPerSecond <= (i \div TicksPerSecond) + L
                  => Accepted(hist[1].sub)
            /\ t \div TicksPerSecond > (i \div TicksPerSecond) + L => Refused

\* a token was verified at the instant issuance + L and was accepted
C13_Witness ==
    /\ VerifiedIntact
    /\ resp.arg.at = hist[1].iat + hist[1].expires_delta[1] * TicksPerSecond
    /\ Accepted(hist[1].sub)

\* the default lifetime in seconds
DefaultSeconds == settings.ACCESS_TOKEN_EXPIRE_MINUTES * 60

\* C14 as stated: for every call of create_access_token, whatever the
\* lifetime argument (absent, zero, negative or positive) and the configured
\* default, the expiry is strictly later than the issuance instant and equals
\* issuance + the supplied lifetime, or + the default when none is supplied.
C14_ExpiryLaterAndExact ==
    tok # <<>> =>
        LET i == hist[1].iat
            d == hist[1].expires_delta
            inforce == IF d # <<>> THEN d[1] ELSE DefaultSeconds
            exp == tok[1].claims.exp
        IN  /\ exp * TicksPerSecond > i
            /\ exp = (i \div TicksPerSecond) + inforce

\* C14 amended: the expiry equals the whole second of issuance + the
\* lifetime in force, which is the lifetime argument when it is supplied and
\* not zero and the configured default otherwise; the expiry is strictly
\* later than issuance exactly when the lifetime in force is positive.
C14_ExpiryExactLaterIffPositive ==
    tok # <<>> =>
        LET i == hist[1].iat
            d == hist[1].expires_delta
            inforce == IF d # <<>> /\ d[1] # 0 THEN d[1] ELSE DefaultSeconds
            exp == tok[1].claims.exp
        IN  /\ exp = (i \div TicksPerSecond) + inforce
            /\ (exp * TicksPerSecond > i) <=> (inforce > 0)

\* a token was issued with a negative lifetime and expires before issuance
C14_Witness ==
    /\ tok # <<>>
    /\ hist[1].expires_delta # <<>>
    /\ hist[1].expires_delta[1] < 0
    /\ tok[1].claims.exp * TicksPerSecond < hist[1].iat

\* what was presented is a token that must not be accepted: a variant whose
\* signature does not verify, that is malformed or that lacks a claim, or
\* the issued token after its expiry second
Unacceptable ==
    /\ resp.op = "verify"
    /\ \/ resp.arg.variant \in
             {"signature", "subject", "expiry", "malformed", "other_key",
              "no_sub", "no_exp"}
       \/ /\ resp.arg.variant = "intact"
          /\ tok[1].claims.exp < resp.arg.at \div TicksPerSecond

\* C15: verify fails with the one 401 "Could not validate credentials" for
\* every token whose signature does not verify, that is malformed, that
\* lacks the subject or the expiry claim, or that is expired.
C15_BadTokenRefused == Unacceptable => Refused

\* ------------------------------------------------------- invalid roles
\* C16: a role change to a role other than admin or user fails with the
\* invalid-role error whatever the identifier (of an account, of none, or
\* malformed) and whatever the store, and leaves the store as it was.
C16_InvalidRoleRejected ==
    [][(/\ last'.op = "update_user_role"
        /\ last'.svc # "not called"
        /\ last'.arg \notin {"admin", "user"})
          => (/\ last'.svc = "ValueError: Invalid role"
              /\ last'.http = 400
              /\ coll' = coll)]_vars

\* an invalid role was asked for an account that exists, and was refused
C16_Witness ==
    /\ last.op = "update_user_role"
    /\ last.arg = "guest"
    /\ last.was = "admin"
    /\ last.svc = "ValueError: Invalid role"

\* C17: in every reachable state every stored account's role is admin or
\* user, whatever role strings the callers supplied.
C17_StoredRolesValid ==
    \A i \in DOMAIN coll : coll[i].role \in {"admin", "user"}

\* ---------------------------------------------------- created timestamp
ReadOps == {"get_user_by_email", "get_user_by_id", "get_all_users"}

\* C18: every read of a registered account (by email, by id or in a list
\* page), at any later instant, reports it active and created at the instant
\* of its registration.
C18_ReadsReportRegistrationInstant ==
    resp.op \in ReadOps =>
        \A k \in DOMAIN resp.out :
            /\ resp.out[k].is_active
            /\ resp.out[k].created_at = hist[resp.out[k].id[2]]

\* ------------------------------------------------------ profile update
\* C19: a profile update changes, on the account the identifier names, the
\* supplied fields among email, display name and active flag and nothing
\* else: its identifier, role, password hash and unsupplied fields and all
\* other accounts stay as they were.  For an identifier that names no
\* account the caller is told not-found and the store stays as it was.
C19_UpdateContract ==
    [][(last'.op = "update_user" /\ last'.svc # "not called")
          => LET d == last'.arg
                 T == Targets(coll, last'.user_id)
             IN  /\ DOMAIN d \subseteq {"email", "full_name", "is_active"}
                 /\ T = {} => (/\ last'.svc = "None"
                               /\ last'.http = 404
                               /\ coll' = coll)
                 /\ T # {} =>
                       /\ last'.svc = "return"
                       /\ DOMAIN coll' = DOMAIN coll
                       /\ \A i \in DOMAIN coll \ T : coll'[i] = coll[i]
                       /\ \A i \in T :
                             /\ DOMAIN coll'[i] = DOMAIN coll[i] \cup DOMAIN d
                             /\ \A k \in DOMAIN d : coll'[i][k] = d[k]
                             /\ \A k \in DOMAIN coll[i] \ DOMAIN d :
                                   coll'[i][k] = coll[i][k]]_vars

\* ------------------------------------------------- two administrators
\* the identifiers of the stored accounts with role admin
AdminIds(c) == {c[i]._id : i \in {j \in DOMAIN c : c[j].role = "admin"}}

StoredIds(c) == {c[i]._id : i \in DOMAIN c}

\* C20: with administrators A and B created, demoting A succeeds and leaves
\* B the only admin; demoting B then fails with the last-admin error;
\* deleting A succeeds; deleting B fails with the last-admin error; at the
\* end B is stored with role admin and A is absent.
C20_ScenarioOutcomes ==
    /\ Len(hist) >= 1 => hist[1].svc = "return"
    /\ Len(hist) >= 2 => hist[2].svc = "return"
    /\ Len(hist) = 2 => AdminIds(coll) = {1, 2}
    /\ Len(hist) >= 3 => hist[3].svc = "return"
    /\ Len(hist) = 3 => (AdminIds(coll) = {2} /\ StoredIds(coll) = {1, 2})
    /\ Len(hist) >= 4 => hist[4].svc = LastAdminError
    /\ Len(hist) = 4 => (AdminIds(coll) = {2} /\ StoredIds(coll) = {1, 2})
    /\ Len(hist) >= 5 => hist[5].svc = "True"
    /\ Len(hist) = 5 => (AdminIds(coll) = {2} /\ StoredIds(coll) = {2})
    /\ Len(hist) >= 6 => hist[6].svc = LastAdminError
    /\ Len(hist) = 6 => (AdminIds(coll) = {2} /\ StoredIds(coll) = {2})

\* the six calls were made
C20_Witness ==
    /\ Len(hist) = 6
    /\ hist[6].op = "delete_user"
    /\ hist[6].user_id = <<"lower", 2>>
    /\ Len(coll) = 1

\* -------------------------------------------------------- stale tokens
Subject(token) == token.claims.sub

\* some stored account has the email and role admin
AdminHolds(c, email) ==
    \E i \in DOMAIN c : c[i].email = email /\ c[i].role = "admin"

\* the account a lookup by the email finds has role admin
FoundIsAdmin(c, email) ==
    /\ WithEmail(c, email) # {}
    /\ c[Min(WithEmail(c, email))].role = "admin"

\* the token was issued at a login, and every account it was issued to has
\* since been deleted, demoted or given another email
Stale(c, token) ==
    /\ \E h \in hist : h.token = token
    /\ \A h \in hist :
          h.token = token =>
              ~\E i \in DOMAIN c : /\ c[i]._id = h.id[2]
                                   /\ c[i].role = "admin"
                                   /\ c[i].email = Subject(token)

\* the request was turned away before the service was called
Rejected(r, c, c2) ==
    /\ r.out \in {401, 403}
    /\ r.svc = "not called"
    /\ c2 = c

\* C21 as stated: an admin-only operation is carried out only if an account
\* with the token's subject as email and role admin exists at that time; a
\* token issued to an account that has since been demoted, deleted or given a
\* different email is rejected with 401 or 403 and changes nothing.
C21_StaleTokenRejected ==
    [][resp'.op \in AdminOps
          => LET token == resp'.arg.token
             IN  /\ resp'.svc # "not called"
                       => (token \in tok /\ AdminHolds(coll, Subject(token)))
                 /\ Stale(coll, token) => Rejected(resp', coll, coll')]_vars

\* C21 amended: an admin-only operation is carried out only if the token
\* verifies and the account found by its subject email has role admin at
\* that time, and is otherwise rejected with 401 or 403 and changes nothing;
\* a token issued to an account since demoted, deleted or renamed is
\* rejected as long as no admin account holds that email.
C21_ServedIffSubjectIsAdmin ==
    [][resp'.op \in AdminOps
          => LET token == resp'.arg.token
                 ok == token \in tok /\ FoundIsAdmin(coll, Subject(token))
             IN  /\ resp'.svc # "not called" => ok
                 /\ ~ok => Rejected(resp', coll, coll')
                 /\ (Stale(coll, token) /\ ~AdminHolds(coll, Subject(token)))
                       => Rejected(resp', coll, coll')]_vars

\* a kept token whose account was demoted was presented and refused
C21_Witness ==
    /\ resp.op \in AdminOps
    /\ resp.arg.token \in tok
    /\ Stale(coll, resp.arg.token)
    /\ resp.out = 403

\* --------------------------------------------------- inactive accounts
\* the store with the active flag of its i-th account inverted
FlipActive(c, i) ==
    [c EXCEPT ![i] =
        [k \in DOMAIN c[i] \cup {"is_active"} |->
            IF k = "is_active" THEN ~IsActive(c[i]) ELSE c[i][k]]]

\* an account as returned, its active flag left out
BlindUser(u) == [k \in DOMAIN u \ {"is_active"} |-> u[k]]

BlindAuth(svc) == [k \in DOMAIN svc |-> BlindUser(svc[k])]

BlindLogin(out) ==
    IF "user" \in DOMAIN out THEN [out EXCEPT !.user = BlindUser(out.user)]
    ELSE out

\* the account a lookup by the email finds is stored inactive
FoundInactive(c, email) ==
    /\ WithEmail(c, email) # {}
    /\ ~IsActive(c[Min(WithEmail(c, email))])

\* C22: the active flag is never consulted by authentication or by the
\* admin check.  A login or an admin request ends as it would on the store
\* that differs in one account's active flag; a login with the right
\* password of an inactive account is given a token, and an admin request
\* with the token of an inactive admin is not turned away.
C22_ActiveFlagIgnored ==
    [][/\ resp'.op = "login" =>
            LET e == resp'.arg.email
                p == resp'.arg.password
            IN  /\ \A i \in DOMAIN coll :
                      /\ BlindAuth(resp'.svc) =
                            BlindAuth(authenticate_user(FlipActive(coll, i), e, p, now))
                      /\ BlindLogin(resp'.out) =
                            BlindLogin(login_user(FlipActive(coll, i), resp'.arg,
                                                  now, settings))
                /\ (FoundInactive(coll, e) /\ ~WrongPassword(coll, e, p))
                      => "access_token" \in DOMAIN resp'.out
       /\ resp'.op \in AdminOps =>
            LET token == resp'.arg.token
            IN  /\ \A i \in DOMAIN coll :
                      (resp'.out \in {401, 403}) <=>
                          (current_admin(FlipActive(coll, i), token, now).http # 200)
                /\ (token \in tok /\ FoundIsAdmin(coll, Subject(token)))
                      => resp'.out \notin {401, 403}]_vars

\* an admin stored inactive used its token to change an account
C22_Witness ==
    /\ resp.op = "update_user_role"
    /\ resp.svc = "return"
    /\ FoundInactive(coll, Subject(resp.arg.token))

\* ------------------------------------------------- database manager
DbReads ==
    {"client", "database", "get_database", "DatabaseManager.get_collection",
     "get_collection"}

\* the handles are both absent, or both present, and then the database is
\* the current client's and that client is open
BothOrNeither ==
    /\ (db_manager.client = <<>>) <=> (db_manager.database = <<>>)
    /\ db_manager.client # <<>> =>
          /\ db_manager.database[1].client = db_manager.client[1].id
          /\ clients[db_manager.client[1].id] = "open"

\* C23: the two handles of the manager are always both unset or both set;
\* every read of the client, the database or a collection while they are
\* unset raises DatabaseConnectionError and while they are set returns a
\* handle of the current client; a connect while connected keeps the
\* client and creates none; a connect while unset, after a disconnect
\* included, sets both handles on a new open client; a disconnect unsets
\* both.
C23_ManagerLifecycle ==
    /\ []BothOrNeither
    /\ [][/\ (resp'.op \in DbReads /\ db_manager.client = <<>>) =>
               /\ resp'.svc = "raise"
               /\ resp'.out = DatabaseConnectionError
          /\ (resp'.op \in DbReads /\ db_manager.client # <<>>) =>
               /\ resp'.svc = "return"
               /\ resp'.op = "client" => resp'.out = db_manager.client[1]
               /\ resp'.op # "client" =>
                     resp'.out.client = db_manager.client[1].id
          /\ (resp'.op = "connect" /\ db_manager.client # <<>>) =>
               /\ db_manager' = db_manager
               /\ clients' = clients
          /\ (resp'.op = "connect" /\ db_manager.client = <<>>) =>
               /\ db_manager'.client # <<>>
               /\ db_manager'.database # <<>>
               /\ db_manager'.client[1].id \notin DOMAIN clients
               /\ clients'[db_manager'.client[1].id] = "open"
               /\ client(db_manager').svc = "return"
               /\ \A n \in CollectionNames :
                     get_collection(db_manager', n).svc = "return"
          /\ resp'.op = "disconnect" =>
               /\ db_manager'.client = <<>>
               /\ db_manager'.database = <<>>
               /\ \A i \in DOMAIN clients' : clients'[i] = "closed"]_vars

\* a collection was handed out by a client created after a disconnect
C23_Witness ==
    /\ resp.op = "get_collection"
    /\ resp.svc = "return"
    /\ resp.out.client > 1
    /\ clients[1] = "closed"

====
